---- MODULE Spec2Model ----
(***************************************************************************)
(* Model of preprocess_data.py, the order analytics pipeline: Step 1 (read *)
(* and deduplicate the order rows), Step 2 (validity filter and sort),     *)
(* Step 3 (customer history), Step 4 (monthly aggregates), Step 5          *)
(* (subscription retention funnel), Step 7 (market cohorts) and Step 11    *)
(* (product cohorts).  Steps 6, 8-10, 12 and 13 only derive rollups from   *)
(* these tables or read auxiliary files, and are not modelled.             *)
(*                                                                         *)
(* Text is modelled as a sequence of one-character strings, so that        *)
(* strip, lower, upper, slicing, substring search and Python's string      *)
(* comparison are computed as the code computes them.  Amounts are whole   *)
(* currency units (the code's floats, without fractions).                  *)
(***************************************************************************)
EXTENDS Integers, Sequences, FiniteSets, TLC

(***************************************************************************)
(* Text                                                                    *)
(***************************************************************************)

\* The characters used, in code-point order (Python compares str by code point).
CHARS ==
  << " ", "#", ",", "-", "/",
     "0", "1", "2", "3", "4", "5", "6", "7", "8", "9", "@",
     "A", "B", "C", "D", "E", "F", "G", "H", "I", "J", "K", "L", "M",
     "N", "O", "P", "Q", "R", "S", "T", "U", "V", "W", "X", "Y", "Z", "_",
     "a", "b", "c", "d", "e", "f", "g", "h", "i", "j", "k", "l", "m",
     "n", "o", "p", "q", "r", "s", "t", "u", "v", "w", "x", "y", "z" >>

CharSet == {CHARS[i] : i \in 1..Len(CHARS)}

Ord == [c \in CharSet |-> CHOOSE i \in 1..Len(CHARS) : CHARS[i] = c]

DIGITS == <<"0", "1", "2", "3", "4", "5", "6", "7", "8", "9">>

IsDigit(c) == \E i \in 1..Len(DIGITS) : DIGITS[i] = c

DigitVal(c) == (CHOOSE i \in 1..Len(DIGITS) : DIGITS[i] = c) - 1

IsUpper(c) == Ord[c] >= Ord["A"] /\ Ord[c] <= Ord["Z"]

IsLower(c) == Ord[c] >= Ord["a"] /\ Ord[c] <= Ord["z"]

\* str.lower() and str.upper()
Lower(s) ==
  [i \in 1..Len(s) |->
     IF IsUpper(s[i]) THEN CHARS[Ord[s[i]] - Ord["A"] + Ord["a"]] ELSE s[i]]

Upper(s) ==
  [i \in 1..Len(s) |->
     IF IsLower(s[i]) THEN CHARS[Ord[s[i]] - Ord["a"] + Ord["A"]] ELSE s[i]]

\* str.strip(): leading and trailing white space removed
Strip(s) ==
  LET keep == {i \in 1..Len(s) : s[i] # " "}
  IN  IF keep = {} THEN <<>>
      ELSE SubSeq(s, CHOOSE i \in keep : \A j \in keep : i <= j,
                     CHOOSE i \in keep : \A j \in keep : i >= j)

\* s[:n]
Prefix(s, n) == SubSeq(s, 1, IF Len(s) < n THEN Len(s) ELSE n)

\* s.startswith(p)
StartsWith(s, p) == Len(s) >= Len(p) /\ SubSeq(s, 1, Len(p)) = p

\* sub in s
Contains(s, sub) ==
  \E i \in 1..(Len(s) - Len(sub) + 1) : SubSeq(s, i, i + Len(sub) - 1) = sub

\* s < t and s <= t on str: the first differing character decides, a proper
\* prefix is smaller.
StrLess(s, t) ==
  \E k \in 1..Len(t) :
     /\ \A j \in 1..(k - 1) : j <= Len(s) /\ s[j] = t[j]
     /\ k - 1 <= Len(s)
     /\ (k > Len(s) \/ Ord[s[k]] < Ord[t[k]])

StrLeq(s, t) == s = t \/ StrLess(s, t)

\* int(s) of a string of digits
RECURSIVE IntOf(_)
IntOf(s) ==
  IF s = <<>> THEN 0
  ELSE 10 * IntOf(SubSeq(s, 1, Len(s) - 1)) + DigitVal(s[Len(s)])

\* f'{n:0{w}d}'
RECURSIVE ZeroPad(_, _)
ZeroPad(n, w) ==
  IF w = 0 THEN <<>> ELSE Append(ZeroPad(n \div 10, w - 1), DIGITS[(n % 10) + 1])

\* str(n) for n >= 0
RECURSIVE Decimal(_)
Decimal(n) ==
  IF n < 10 THEN <<DIGITS[n + 1]>> ELSE Append(Decimal(n \div 10), DIGITS[(n % 10) + 1])

\* fnum: the decimal value with thousands separators removed, 0.0 on a
\* missing or unparsable field (whole amounts only)
fnum(s) ==
  LET t == IF s = <<>> THEN <<"0">> ELSE s
      u == SelectSeq(t, LAMBDA c : c # ",")
  IN  IF u # <<>> /\ \A i \in 1..Len(u) : IsDigit(u[i]) THEN IntOf(u) ELSE 0

(***************************************************************************)
(* Months                                                                  *)
(***************************************************************************)

START_MONTH == <<"2", "0", "2", "0", "-", "0", "3">>
END_MONTH   == <<"2", "0", "2", "6", "-", "0", "2">>
COHORT_FIRST == <<"2", "0", "2", "3", "-", "0", "1">>
COHORT_LAST  == <<"2", "0", "2", "5", "-", "1", "2">>

\* y, m = map(int, s.split('-')) for s of the form YYYY-MM
YearOf(s)  == IntOf(SubSeq(s, 1, 4))
MonthOf(s) == IntOf(SubSeq(s, 6, 7))

FmtMonth(y, m) == ZeroPad(y, 4) \o <<"-">> \o ZeroPad(m, 2)

RECURSIVE GenLoop(_, _, _, _)
GenLoop(y, m, ey, em) ==
  IF y < ey \/ (y = ey /\ m <= em)
  THEN <<FmtMonth(y, m)>> \o
       (IF m + 1 > 12 THEN GenLoop(y + 1, 1, ey, em) ELSE GenLoop(y, m + 1, ey, em))
  ELSE <<>>

gen_months(start, end) ==
  GenLoop(YearOf(start), MonthOf(start), YearOf(end), MonthOf(end))

months_offset(m1, m2) ==
  (YearOf(m2) - YearOf(m1)) * 12 + (MonthOf(m2) - MonthOf(m1))

ALL_MONTHS == gen_months(START_MONTH, END_MONTH)

COHORT_MONTHS == gen_months(COHORT_FIRST, COHORT_LAST)

MonthSet == {ALL_MONTHS[i] : i \in 1..Len(ALL_MONTHS)}

CTRY_KEYS == <<"ALL", "US", "GB", "DE", "NL", "CA">>

CtrySet == {CTRY_KEYS[i] : i \in 1..Len(CTRY_KEYS)}


(***************************************************************************)
(* Step 1: read the order rows, deduplicate by Name                        *)
(***************************************************************************)

\* Map a Lineitem name to a canonical product group (first match wins).
map_product_group(lname) ==
  LET n == Lower(lname)
  IN  IF (Contains(n, <<"d", "e", "t", "o", "x">>) /\ Contains(n, <<"7">>))
        THEN "Detox 7-Day"
      ELSE IF (Contains(n, <<"d", "e", "t", "o", "x">>) /\ Contains(n, <<"1", "4">>))
        THEN "Detox 14-Day"
      ELSE IF (Contains(n, <<"d", "e", "t", "o", "x">>) /\ Contains(n, <<"2", "1">>))
        THEN "Detox 21-Day"
      ELSE IF (Contains(n, <<"d", "e", "t", "o", "x">>) /\ Contains(n, <<"2", "8">>))
        THEN "Detox 28-Day"
      ELSE IF (Contains(n, <<"b", "o", "d", "y", " ", "r", "e", "s", "e", "t">>) \/ (Contains(n, <<"2", "1", " ", "d", "a", "y">>) /\ ~Contains(n, <<"d", "e", "t", "o", "x">>)))
        THEN "21-Day Body Reset"
      ELSE IF Contains(n, <<"c", "a", "l", "o", "r", "i", "e">>)
        THEN "Calorie Blocker"
      ELSE IF Contains(n, <<"d", "r", "i", "n", "k", "i", "n", "g">>)
        THEN "Drinking Protocol"
      ELSE IF Contains(n, <<"s", "l", "e", "e", "p">>)
        THEN "Better Sleep"
      ELSE IF Contains(n, <<"l", "i", "v", "e", "r", " ", "h", "e", "a", "l", "t", "h">>)
        THEN "Liver Health"
      ELSE IF Contains(n, <<"l", "i", "v", "e", "r", " ", "r", "e", "s", "e", "t">>)
        THEN "Liver Reset"
      ELSE IF Contains(n, <<"l", "i", "v", "e", "r">>)
        THEN "Liver Bundle"
      ELSE IF (Contains(n, <<"b", "r", "a", "i", "n">>) \/ Contains(n, <<"e", "n", "e", "r", "g", "y">>))
        THEN "Brain & Energy"
      ELSE IF (Contains(n, <<"d", "i", "g", "e", "s", "t", "i", "o", "n">>) \/ Contains(n, <<"d", "i", "g", "e", "s", "t", "i", "v", "e">>))
        THEN "Digestion"
      ELSE IF Contains(n, <<"i", "m", "m", "u", "n", "e">>)
        THEN "Immune Support"
      ELSE IF (Contains(n, <<"t", "i", "r", "e", "d", "n", "e", "s", "s">>) \/ Contains(n, <<"t", "i", "r", "e", "d">>))
        THEN "Tiredness"
      ELSE "Other"

\* The supported markets, as the text of the Shipping Country field.
MARKET_TEXT ==
  [US |-> <<"U", "S">>, GB |-> <<"G", "B">>, DE |-> <<"D", "E">>,
   NL |-> <<"N", "L">>, CA |-> <<"C", "A">>]

\* country_raw if country_raw in ('US','GB','DE','NL','CA') else 'OTHER'
CtryOf(country_raw) ==
  IF \E c \in DOMAIN MARKET_TEXT : MARKET_TEXT[c] = country_raw
  THEN CHOOSE c \in DOMAIN MARKET_TEXT : MARKET_TEXT[c] = country_raw
  ELSE "OTHER"

T_SUBSCRIPTION == <<"s", "u", "b", "s", "c", "r", "i", "p", "t", "i", "o", "n">>
T_SUB_PREFIX   == <<"#", "U">>
T_EXCLUDED     == <<"_", "E">>
T_VOIDED       == <<"v", "o", "i", "d", "e", "d">>
T_PENDING      == <<"p", "e", "n", "d", "i", "n", "g">>

\* name.startswith('#U') or 'subscription' in tags.lower()
IsSubscription(name, tags) ==
  StartsWith(name, T_SUB_PREFIX) \/ Contains(Lower(tags), T_SUBSCRIPTION)

\* The attribute record orders[name] built from a row.
MkOrder(name, row) ==
  [name     |-> name,
   email    |-> Lower(Strip(row.Email)),
   ctry     |-> CtryOf(Upper(Strip(row.Country))),
   created  |-> Strip(row.Created),
   total    |-> fnum(row.Total),
   subtotal |-> fnum(row.Subtotal),
   discount |-> fnum(row.Discount),
   refunded |-> fnum(row.Refunded),
   fin      |-> Lower(Strip(row.Fin)),
   tags     |-> Strip(row.Tags),
   is_sub   |-> IsSubscription(name, Strip(row.Tags))]

\* d[k] = v on a dict held as a function
Put(d, k, v) == [x \in (DOMAIN d) \cup {k} |-> IF x = k THEN v ELSE d[x]]

\* Faulty variant of InOrders: the duplicate check is lost.
InOrdersNever(ords, name) == FALSE

\* name in orders (orders is held as the sequence of its values, in
\* insertion order, each carrying its key in .name)
InOrders(ords, name) == \E j \in 1..Len(ords) : ords[j].name = name

\* if '_E' in name: continue
IsExcluded(name) == Contains(name, T_EXCLUDED)

\* The body of the row loop: the order store and the product side table
\* after one more row.
ReadOne(ords, prods, row) ==
  LET name  == Strip(row.Name)
      lname == Strip(row.Lineitem)
      prods2 == IF name \notin DOMAIN prods /\ lname # <<>>
                THEN Put(prods, name, map_product_group(lname))
                ELSE prods
  IN  IF name = <<>> THEN [orders |-> ords, order_product |-> prods]
      ELSE IF InOrders(ords, name) \/ IsExcluded(name)
           THEN [orders |-> ords, order_product |-> prods2]
           ELSE [orders |-> Append(ords, MkOrder(name, row)),
                 order_product |-> prods2]

RECURSIVE ReadLoop(_, _, _, _)
ReadLoop(ords, prods, rs, i) ==
  IF i > Len(rs) THEN [orders |-> ords, order_product |-> prods]
  ELSE LET st == ReadOne(ords, prods, rs[i])
       IN  ReadLoop(st.orders, st.order_product, rs, i + 1)

\* Step 1 on a whole input
ReadAll(rs) == ReadLoop(<<>>, <<>>, rs, 1)

(***************************************************************************)
(* Step 2: validity filter, sort by creation timestamp                     *)
(***************************************************************************)

\* o['fin'] in ('voided', 'pending', '')
FinExcluded(fin) == fin \in {T_VOIDED, T_PENDING, <<>>}

\* not month or month < START_MONTH or month > END_MONTH
MonthRejected(month) ==
  month = <<>> \/ StrLess(month, START_MONTH) \/ StrLess(END_MONTH, month)

IsValid(o) == ~FinExcluded(o.fin) /\ ~MonthRejected(Prefix(o.created, 7))

RECURSIVE FilterLoop(_, _)
FilterLoop(ords, i) ==
  IF i > Len(ords) THEN <<>>
  ELSE IF IsValid(ords[i])
       THEN <<[month |-> Prefix(ords[i].created, 7)] @@ ords[i]>> \o FilterLoop(ords, i + 1)
       ELSE FilterLoop(ords, i + 1)

\* key(a) <= key(b) for the sort key o['created']
KeyLeq(a, b) == StrLeq(a.created, b.created)

\* list.sort is stable: an element goes after every element whose key is
\* not greater than its own.
InsertStable(s, o) ==
  LET n == Cardinality({j \in 1..Len(s) : KeyLeq(s[j], o)})
  IN  SubSeq(s, 1, n) \o <<o>> \o SubSeq(s, n + 1, Len(s))

RECURSIVE SortLoop(_, _, _)
SortLoop(acc, s, i) ==
  IF i > Len(s) THEN acc ELSE SortLoop(InsertStable(acc, s[i]), s, i + 1)

\* Faulty variant of SortByCreated: the sort is lost.
SortSkipped(s) == s

SortByCreated(s) == SortLoop(<<>>, s, 1)

\* Step 2 on the order store
FilterSort(ords) == SortByCreated(FilterLoop(ords, 1))

(***************************************************************************)
(* Step 3: customer history (new vs returning, subscription sequence)      *)
(***************************************************************************)

\* email_sub_seq is a defaultdict(int)
SeqOf(email_sub_seq, em) == IF em \in DOMAIN email_sub_seq THEN email_sub_seq[em] ELSE 0

\* Faulty variant of NextSubSeq: the running count is not carried over.
NextSubSeqStuck(email_sub_seq, em) == 1

\* email_sub_seq[em] += 1
NextSubSeq(email_sub_seq, em) == SeqOf(email_sub_seq, em) + 1

\* em not in email_first
FirstSeen(email_first, em) == em \notin DOMAIN email_first

\* The loop body: the annotated order and the two dicts after it.
HistoryOne(h, o) ==
  LET em == o.email
  IN  IF em # <<>>
      THEN LET new == FirstSeen(h.email_first, em)
               ef  == IF new THEN Put(h.email_first, em, o.month) ELSE h.email_first
           IN  IF o.is_sub
               THEN LET k == NextSubSeq(h.email_sub_seq, em)
                    IN  [out |-> Append(h.out, [is_new |-> new, sub_seq |-> k] @@ o),
                         email_first |-> ef,
                         email_sub_seq |-> Put(h.email_sub_seq, em, k)]
               ELSE [out |-> Append(h.out, [is_new |-> new, sub_seq |-> 0] @@ o),
                     email_first |-> ef,
                     email_sub_seq |-> h.email_sub_seq]
      ELSE [out |-> Append(h.out, [is_new |-> FALSE,
                                   sub_seq |-> IF o.is_sub THEN 1 ELSE 0] @@ o),
            email_first |-> h.email_first,
            email_sub_seq |-> h.email_sub_seq]

RECURSIVE HistoryLoop(_, _, _)
HistoryLoop(h, v, i) ==
  IF i > Len(v) THEN h ELSE HistoryLoop(HistoryOne(h, v[i]), v, i + 1)

\* Step 3 on the sorted valid sequence
History(v) ==
  HistoryLoop([out |-> <<>>, email_first |-> <<>>, email_sub_seq |-> <<>>], v, 1)


(***************************************************************************)
(* Step 4: monthly aggregates per country                                  *)
(***************************************************************************)

empty_mo(m) ==
  [m |-> m, g |-> 0, n |-> 0, o |-> 0, nc |-> 0, rc |-> 0, d |-> 0, r |-> 0,
   sub |-> 0, ot |-> 0]

\* monthly = {c: {m: empty_mo(m) for m in ALL_MONTHS} for c in CTRY_KEYS}
EmptyMonthly == [c \in CtrySet |-> [m \in MonthSet |-> empty_mo(m)]]

\* g = o['subtotal'] + o['discount']
Gross(o) == o.subtotal + o.discount

\* n = o['subtotal'] - o['refunded']
Net(o) == o.subtotal - o.refunded

\* Faulty variant of Dest: an order of an unsupported market is counted nowhere.
DestDropsOther(ctry) == IF ctry # "OTHER" THEN {"ALL", ctry} ELSE {}

\* dest = ['ALL'] + ([ctry] if ctry != 'OTHER' else [])
Dest(ctry) == {"ALL"} \cup (IF ctry # "OTHER" THEN {ctry} ELSE {})

\* Faulty variant of AddToBucket: an order without identity is counted as
\* neither new nor returning.
AddToBucketSkipsAnonymous(mo, o) ==
  [mo EXCEPT !.g   = @ + Gross(o),
             !.n   = @ + Net(o),
             !.o   = @ + 1,
             !.d   = @ + o.discount,
             !.r   = @ + o.refunded,
             !.nc  = IF o.is_new THEN @ + 1 ELSE @,
             !.rc  = IF o.is_new \/ o.email = <<>> THEN @ ELSE @ + 1,
             !.sub = IF o.is_sub THEN @ + 1 ELSE @,
             !.ot  = IF o.is_sub THEN @ ELSE @ + 1]

\* The updates of one bucket mo for one order
AddToBucket(mo, o) ==
  [mo EXCEPT !.g   = @ + Gross(o),
             !.n   = @ + Net(o),
             !.o   = @ + 1,
             !.d   = @ + o.discount,
             !.r   = @ + o.refunded,
             !.nc  = IF o.is_new THEN @ + 1 ELSE @,
             !.rc  = IF o.is_new THEN @ ELSE @ + 1,
             !.sub = IF o.is_sub THEN @ + 1 ELSE @,
             !.ot  = IF o.is_sub THEN @ ELSE @ + 1]

\* for c in dest: mo = monthly[c][m]; ...
AddMonthly(tab, o) ==
  [c \in DOMAIN tab |->
     IF c \in Dest(o.ctry)
     THEN [tab[c] EXCEPT ![o.month] = AddToBucket(@, o)]
     ELSE tab[c]]

\* The loop of Step 4.  monthly[c][m] raises KeyError for a month that was
\* not pre-allocated: the loop, and the run, end there (err).
RECURSIVE MonthlyLoop(_, _, _)
MonthlyLoop(tab, v, i) ==
  IF i > Len(v) THEN [monthly |-> tab, err |-> FALSE]
  ELSE IF v[i].month \notin DOMAIN tab["ALL"] THEN [monthly |-> tab, err |-> TRUE]
  ELSE MonthlyLoop(AddMonthly(tab, v[i]), v, i + 1)

Monthly(v) == MonthlyLoop(EmptyMonthly, v, 1)

(***************************************************************************)
(* Step 5: subscription retention funnel                                   *)
(***************************************************************************)

FUNNEL_DEPTH == 8

\* Faulty variant of Max: the last value wins.
MaxLast(a, b) == b

Max(a, b) == IF a >= b THEN a ELSE b
Min(a, b) == IF a <= b THEN a ELSE b

\* The market recorded when an identity is first entered in email_sub_info
InfoCtry(o) == o.ctry

\* email_sub_info is held as the sequence of its items, in insertion order.
SubInfoOne(info, o) ==
  IF o.email = <<>> \/ ~o.is_sub \/ o.sub_seq = 0 THEN info
  ELSE IF \E j \in 1..Len(info) : info[j].em = o.email
       THEN [j \in 1..Len(info) |->
               IF info[j].em = o.email
               THEN [info[j] EXCEPT !.max_seq = Max(@, o.sub_seq)]
               ELSE info[j]]
       ELSE Append(info, [em |-> o.email, ctry |-> InfoCtry(o),
                          max_seq |-> Max(0, o.sub_seq)])

RECURSIVE SubInfoLoop(_, _, _)
SubInfoLoop(info, v, i) ==
  IF i > Len(v) THEN info ELSE SubInfoLoop(SubInfoOne(info, v[i]), v, i + 1)

SubInfo(v) == SubInfoLoop(<<>>, v, 1)

\* Faulty variant of FunnelDepths: an identity is counted at its own depth only.
FunnelDepthsOwn(max_s) == {Min(max_s, FUNNEL_DEPTH)}

\* range(min(max_s, 8)), as the 1-based depths 1..min(max_s, 8)
FunnelDepths(max_s) == 1..Min(max_s, FUNNEL_DEPTH)

\* for c in dest: for i in range(min(max_s, 8)): sub_ret[c][i] += 1
SubRetOne(ret, it) ==
  [c \in DOMAIN ret |->
     IF c \in Dest(it.ctry)
     THEN [d \in 1..FUNNEL_DEPTH |->
             IF d \in FunnelDepths(it.max_seq) THEN ret[c][d] + 1 ELSE ret[c][d]]
     ELSE ret[c]]

RECURSIVE SubRetLoop(_, _, _)
SubRetLoop(ret, info, i) ==
  IF i > Len(info) THEN ret ELSE SubRetLoop(SubRetOne(ret, info[i]), info, i + 1)

\* sub_ret (index d here is index d - 1 of the Python list)
SubRet(info) ==
  SubRetLoop([c \in CtrySet |-> [d \in 1..FUNNEL_DEPTH |-> 0]], info, 1)

(***************************************************************************)
(* Step 7: market cohorts                                                  *)
(***************************************************************************)

COHORT_SLOTS == 13

\* '2023-01' <= o['month'] <= '2025-12'
InCohortWindow(month) == StrLeq(COHORT_FIRST, month) /\ StrLeq(month, COHORT_LAST)

\* Faulty variant of IsCohortEntry: the sequence number is not looked at.
IsCohortEntryAnySeq(o) == o.email # <<>> /\ o.is_sub

\* The guard of the assignment loop: only a subscription order with
\* sequence number 1 of a known identity is looked at.
IsCohortEntry(o) == o.email # <<>> /\ o.is_sub /\ o.sub_seq = 1

\* The body of the first loop of Step 7
CohortAssignOne(ec, o) ==
  IF ~IsCohortEntry(o) THEN ec
  ELSE IF InCohortWindow(o.month)
       THEN Put(ec, o.email, [cohort |-> o.month, ctry |-> o.ctry])
       ELSE ec

RECURSIVE CohortAssignLoop(_, _, _)
CohortAssignLoop(ec, v, i) ==
  IF i > Len(v) THEN ec ELSE CohortAssignLoop(CohortAssignOne(ec, v[i]), v, i + 1)

CohortAssignAll(v) == CohortAssignLoop(<<>>, v, 1)

\* Faulty variant of OffsetKept: the range check is lost.
OffsetKeptAlways(offset) == TRUE

\* if offset < 0 or offset > 12: continue
OffsetKept(offset) == ~(offset < 0 \/ offset > COHORT_SLOTS - 1)

\* A cohort table is a defaultdict of 13-slot lists; index offset of the
\* Python list is element offset + 1 of the sequence.
ZeroSlots == [k \in 1..COHORT_SLOTS |-> 0]

SlotsOf(t, key) == IF key \in DOMAIN t THEN t[key] ELSE ZeroSlots

\* t[key][offset] += amount.  The callers' guards keep offset within the
\* list; a write outside it would show here as an element outside 1..13.
AddSlot(t, key, offset, amount) ==
  LET slots == SlotsOf(t, key)
      was   == IF offset + 1 \in DOMAIN slots THEN slots[offset + 1] ELSE 0
  IN  Put(t, key, Put(slots, offset + 1, was + amount))

\* The body of the second loop of Step 7, on cohort_rev and cohort_ord
CohortAccOne(acc, ec, o) ==
  IF o.email = <<>> \/ ~o.is_sub THEN acc
  ELSE IF o.email \notin DOMAIN ec THEN acc
  ELSE LET info   == ec[o.email]
           offset == months_offset(info.cohort, o.month)
       IN  IF ~OffsetKept(offset) THEN acc
           ELSE [rev |-> [c \in DOMAIN acc.rev |->
                            IF c \in Dest(info.ctry)
                            THEN AddSlot(acc.rev[c], info.cohort, offset, Gross(o))
                            ELSE acc.rev[c]],
                 ord |-> [c \in DOMAIN acc.ord |->
                            IF c \in Dest(info.ctry)
                            THEN AddSlot(acc.ord[c], info.cohort, offset, 1)
                            ELSE acc.ord[c]]]

RECURSIVE CohortAccLoop(_, _, _, _)
CohortAccLoop(acc, ec, v, i) ==
  IF i > Len(v) THEN acc ELSE CohortAccLoop(CohortAccOne(acc, ec, v[i]), ec, v, i + 1)

EmptyCohort == [c \in CtrySet |-> <<>>]

CohortAcc(ec, v) == CohortAccLoop([rev |-> EmptyCohort, ord |-> EmptyCohort], ec, v, 1)

(***************************************************************************)
(* Step 11: product (SKU) cohorts                                          *)
(***************************************************************************)

\* order_product.get(o['name'], 'Other')
GroupOf(prods, name) == IF name \in DOMAIN prods THEN prods[name] ELSE "Other"

\* The body of the first loop of Step 11
FirstProductOne(efp, prods, o) ==
  IF o.email = <<>> \/ ~o.is_sub \/ o.sub_seq # 1 THEN efp
  ELSE IF o.email \notin DOMAIN efp
       THEN Put(efp, o.email, GroupOf(prods, o.name))
       ELSE efp

RECURSIVE FirstProductLoop(_, _, _, _)
FirstProductLoop(efp, prods, v, i) ==
  IF i > Len(v) THEN efp
  ELSE FirstProductLoop(FirstProductOne(efp, prods, v[i]), prods, v, i + 1)

FirstProduct(prods, v) == FirstProductLoop(<<>>, prods, v, 1)

\* o['sub_seq'] < 1 or o['sub_seq'] > 13
SkuSeqSkipped(seq) == seq < 1 \/ seq > COHORT_SLOTS

\* Faulty variant of SkuOffset: the slots are numbered from 1.
SkuOffsetFromOne(seq) == seq

\* offset = o['sub_seq'] - 1
SkuOffset(seq) == seq - 1

\* The body of the second loop of Step 11, on sku_cohort_rev and sku_cohort_ord
SkuAccOne(acc, efp, o) ==
  IF o.email = <<>> \/ ~o.is_sub \/ SkuSeqSkipped(o.sub_seq) THEN acc
  ELSE IF o.email \notin DOMAIN efp THEN acc
  ELSE [rev |-> AddSlot(acc.rev, efp[o.email], SkuOffset(o.sub_seq), Gross(o)),
        ord |-> AddSlot(acc.ord, efp[o.email], SkuOffset(o.sub_seq), 1)]

RECURSIVE SkuAccLoop(_, _, _, _)
SkuAccLoop(acc, efp, v, i) ==
  IF i > Len(v) THEN acc ELSE SkuAccLoop(SkuAccOne(acc, efp, v[i]), efp, v, i + 1)

SkuAcc(efp, v) == SkuAccLoop([rev |-> <<>>, ord |-> <<>>], efp, v, 1)


(***************************************************************************)
(* The whole run                                                           *)
(***************************************************************************)

\* Steps 4, 5, 7 and 11 on an annotated sequence v, with the product side
\* table prods: the tables they build.
Aggregate(prods, v) ==
  LET m   == Monthly(v)
      ca  == CohortAcc(CohortAssignAll(v), v)
      sk  == SkuAcc(FirstProduct(prods, v), v)
  IN  [err |-> m.err, monthly |-> m.monthly, sub_ret |-> SubRet(SubInfo(v)),
       cohort_rev |-> ca.rev, cohort_ord |-> ca.ord,
       sku_cohort_rev |-> sk.rev, sku_cohort_ord |-> sk.ord]

\* Steps 1 to 11 on the input rows rs: the annotated valid sequence and
\* the tables.
Pipeline(rs) ==
  LET st == ReadAll(rs)
      v  == History(FilterSort(st.orders)).out
  IN  [valid |-> v, tables |-> Aggregate(st.order_product, v)]

(***************************************************************************)
(* The program state                                                       *)
(***************************************************************************)

VARIABLES
  rows,                 \* the input rows read so far, in file-scan order
  pc,                   \* the step the script is at
  orders,               \* Step 1: the order store (values, in insertion order)
  order_product,        \* Step 1: order name -> product group
  valid,                \* Step 2: the valid orders, sorted; annotated by Step 3
  email_first,          \* Step 3: identity -> first-seen month
  email_sub_seq,        \* Step 3: identity -> running subscription count
  monthly,              \* Step 4: market -> month -> bucket
  email_sub_info,       \* Step 5: identity -> market, max sequence number
  sub_ret,              \* Step 5: market -> funnel
  email_cohort,         \* Step 7: identity -> cohort month, market
  ci,                   \* Step 7: position of the assignment loop in valid
  cohort_rev,           \* Step 7: market -> cohort month -> 13 revenue slots
  cohort_ord,           \* Step 7: market -> cohort month -> 13 order counts
  email_first_product,  \* Step 11: identity -> first-subscription product group
  sku_cohort_rev,       \* Step 11: product group -> 13 revenue slots
  sku_cohort_ord        \* Step 11: product group -> 13 order counts

vars ==
  <<rows, pc, orders, order_product, valid, email_first, email_sub_seq, monthly,
    email_sub_info, sub_ret, email_cohort, ci, cohort_rev, cohort_ord,
    email_first_product, sku_cohort_rev, sku_cohort_ord>>

Init ==
  /\ rows = <<>>
  /\ pc = "read"
  /\ orders = <<>>
  /\ order_product = <<>>
  /\ valid = <<>>
  /\ email_first = <<>>
  /\ email_sub_seq = <<>>
  /\ monthly = <<>>
  /\ email_sub_info = <<>>
  /\ sub_ret = <<>>
  /\ email_cohort = <<>>
  /\ ci = 1
  /\ cohort_rev = <<>>
  /\ cohort_ord = <<>>
  /\ email_first_product = <<>>
  /\ sku_cohort_rev = <<>>
  /\ sku_cohort_ord = <<>>

\* Step 1, one row of the input: the row is drawn from RowSet, the rows the
\* input family allows next, while fewer than max rows were read.
ReadRow(RowSet, max) ==
  /\ pc = "read"
  /\ Len(rows) < max
  /\ \E row \in RowSet :
       LET st == ReadOne(orders, order_product, row)
       IN  /\ rows' = Append(rows, row)
           /\ orders' = st.orders
           /\ order_product' = st.order_product
  /\ UNCHANGED <<pc, valid, email_first, email_sub_seq, monthly, email_sub_info,
                 sub_ret, email_cohort, ci, cohort_rev, cohort_ord,
                 email_first_product, sku_cohort_rev, sku_cohort_ord>>

\* End of the input, then Step 2.
FilterStep ==
  /\ pc = "read"
  /\ valid' = FilterSort(orders)
  /\ pc' = "history"
  /\ UNCHANGED <<rows, orders, order_product, email_first, email_sub_seq, monthly,
                 email_sub_info, sub_ret, email_cohort, ci, cohort_rev, cohort_ord,
                 email_first_product, sku_cohort_rev, sku_cohort_ord>>

\* Step 3
HistoryStep ==
  /\ pc = "history"
  /\ LET h == History(valid)
     IN  /\ valid' = h.out
         /\ email_first' = h.email_first
         /\ email_sub_seq' = h.email_sub_seq
  /\ pc' = "monthly"
  /\ UNCHANGED <<rows, orders, order_product, monthly, email_sub_info, sub_ret,
                 email_cohort, ci, cohort_rev, cohort_ord, email_first_product,
                 sku_cohort_rev, sku_cohort_ord>>

\* Step 4; a KeyError ends the run.
MonthlyStep ==
  /\ pc = "monthly"
  /\ LET r == Monthly(valid)
     IN  /\ monthly' = r.monthly
         /\ pc' = IF r.err THEN "crashed" ELSE "funnel"
  /\ UNCHANGED <<rows, orders, order_product, valid, email_first, email_sub_seq,
                 email_sub_info, sub_ret, email_cohort, ci, cohort_rev, cohort_ord,
                 email_first_product, sku_cohort_rev, sku_cohort_ord>>

\* Step 5
FunnelStep ==
  /\ pc = "funnel"
  /\ email_sub_info' = SubInfo(valid)
  /\ sub_ret' = SubRet(email_sub_info')
  /\ pc' = "cohort_assign"
  /\ UNCHANGED <<rows, orders, order_product, valid, email_first, email_sub_seq,
                 monthly, email_cohort, ci, cohort_rev, cohort_ord,
                 email_first_product, sku_cohort_rev, sku_cohort_ord>>

\* Step 7, first loop, one order
CohortAssignStep ==
  /\ pc = "cohort_assign"
  /\ ci <= Len(valid)
  /\ email_cohort' = CohortAssignOne(email_cohort, valid[ci])
  /\ ci' = ci + 1
  /\ UNCHANGED <<rows, pc, orders, order_product, valid, email_first, email_sub_seq,
                 monthly, email_sub_info, sub_ret, cohort_rev, cohort_ord,
                 email_first_product, sku_cohort_rev, sku_cohort_ord>>

\* Step 7, second loop
CohortAccStep ==
  /\ pc = "cohort_assign"
  /\ ci > Len(valid)
  /\ LET acc == CohortAcc(email_cohort, valid)
     IN  /\ cohort_rev' = acc.rev
         /\ cohort_ord' = acc.ord
  /\ pc' = "sku"
  /\ UNCHANGED <<rows, orders, order_product, valid, email_first, email_sub_seq,
                 monthly, email_sub_info, sub_ret, email_cohort, ci,
                 email_first_product, sku_cohort_rev, sku_cohort_ord>>

\* Step 11
SkuStep ==
  /\ pc = "sku"
  /\ email_first_product' = FirstProduct(order_product, valid)
  /\ LET acc == SkuAcc(email_first_product', valid)
     IN  /\ sku_cohort_rev' = acc.rev
         /\ sku_cohort_ord' = acc.ord
  /\ pc' = "done"
  /\ UNCHANGED <<rows, orders, order_product, valid, email_first, email_sub_seq,
                 monthly, email_sub_info, sub_ret, email_cohort, ci, cohort_rev,
                 cohort_ord>>

Steps ==
  \/ FilterStep
  \/ HistoryStep
  \/ MonthlyStep
  \/ FunnelStep
  \/ CohortAssignStep
  \/ CohortAccStep
  \/ SkuStep

(***************************************************************************)
(* Inputs                                                                  *)
(***************************************************************************)

\* The most rows of a short input, and of a long one (a single subscriber's
\* renewals).
MaxRows == 3
DeepRows == 14

Row(name, email, country, created, fin, tags, subtotal, discount, lineitem) ==
  [Name |-> name, Email |-> email, Country |-> country, Created |-> created,
   Total |-> subtotal, Subtotal |-> subtotal, Discount |-> discount,
   Refunded |-> <<"1">>, Fin |-> fin, Tags |-> tags, Lineitem |-> lineitem]

Day(y, m, d) == FmtMonth(y, m) \o <<"-">> \o ZeroPad(d, 2)

\* The order name of the i-th row of an input whose rows are distinct orders
NameAt(i) == <<"#">> \o Decimal(1000 + i)
SubNameAt(i) == <<"#", "U">> \o Decimal(1000 + i)

X_PAID    == <<"p", "a", "i", "d">>
X_VOIDED  == <<"V", "o", "i", "d", "e", "d">>
X_PENDING == <<"p", "e", "n", "d", "i", "n", "g">>
X_A       == <<"a", "@", "x">>
X_A_UPPER == <<" ", "A", "@", "X", " ">>
X_B       == <<"b", "@", "x">>
X_US      == <<"U", "S">>
X_GB      == <<" ", "g", "b">>
X_FR      == <<"F", "R">>
X_SUBTAG  == <<"V", "I", "P", ",", " ", "S", "u", "b", "s", "c", "r", "i", "p", "t", "i", "o", "n">>
X_SLEEP   == <<"B", "e", "t", "t", "e", "r", " ", "S", "l", "e", "e", "p", " ", "3", "0">>
X_DETOX   == <<"D", "e", "t", "o", "x", " ", "7", " ", "D", "a", "y">>

\* Dedup inputs: few identifiers (one needing strip, one with the
\* subscription prefix, one excluded, one empty), each in two variants that
\* differ in market, status, amount and line item.
DedupRows(i) ==
  { Row(nm, X_A, v[1], Day(2024, 3, 5), v[2], <<>>, v[3], <<"2">>, v[4]) :
      nm \in { <<"#", "1">>, <<" ", "#", "1">>, <<"#", "U", "2">>,
               <<"#", "3", "_", "E">>, <<>> },
      v \in { <<X_US, X_PAID, <<"1", "0">>, <<>> >>,
              <<X_GB, X_VOIDED, <<"1", ",", "0", "0", "0">>, X_SLEEP>> } }

Next == ReadRow(DedupRows(Len(rows) + 1), MaxRows) \/ Steps

Spec == Init /\ [][Next]_vars

\* Aggregation inputs: distinct orders of one customer in three markets and
\* two months of the window, and orders that are pending, before the
\* window, after it, without a date, or with a date that is not well formed.
AggRows(i) ==
  { Row(NameAt(i), X_A, c, d, X_PAID, <<>>, <<"1", "0">>, <<"2">>, <<>>) :
      c \in {X_US, X_GB, X_FR}, d \in {Day(2024, 3, 5), Day(2025, 11, 20)} }
  \cup
  { Row(NameAt(i), X_A, X_US, Day(2024, 3, 5), X_PENDING, <<>>, <<"1", "0">>, <<"2">>, <<>>) }
  \cup
  { Row(NameAt(i), X_A, X_US, d, X_PAID, <<>>, <<"1", "0">>, <<"2">>, <<>>) :
      d \in { Day(2019, 12, 31), Day(2026, 3, 1), <<>>,
              <<"2", "0", "2", "1", "-", "1", "-", "0", "5">>,
              <<"2", "0", "2", "4", "/", "0", "3", "/", "0", "5">> } }

NextAgg == ReadRow(AggRows(Len(rows) + 1), MaxRows) \/ Steps

SpecAgg == Init /\ [][NextAgg]_vars

\* History inputs: distinct orders of two customers and of no customer,
\* subscription or one-time, at two timestamps (one customer's email is
\* written in another case, with blanks, on the later one).
HistRows(i) ==
  { Row(NameAt(i), IF e = X_A /\ d = Day(2024, 5, 1) THEN X_A_UPPER ELSE e,
        X_US, d, X_PAID, t, <<"1", "0">>, <<"2">>, <<>>) :
      e \in {<<>>, X_A, X_B}, t \in {<<>>, X_SUBTAG},
      d \in {Day(2024, 3, 1), Day(2024, 5, 1)} }

NextHist == ReadRow(HistRows(Len(rows) + 1), MaxRows) \/ Steps

SpecHist == Init /\ [][NextHist]_vars

\* Cohort inputs: subscription orders of one customer in five months
\* (before the cohort window, three consecutive months in it, and one more
\* than a year later) in a supported market and in two of those months in
\* an unsupported one, a one-time order of that customer, and a
\* subscription order of another customer.
CohortRows(i) ==
  { Row(NameAt(i), X_A, X_US, d, X_PAID, X_SUBTAG, <<"1", "0">>, <<"2">>, <<>>) :
      d \in { Day(2022, 12, 10), Day(2024, 3, 10), Day(2024, 4, 10),
              Day(2024, 5, 10), Day(2025, 6, 10) } }
  \cup
  { Row(NameAt(i), X_A, X_FR, d, X_PAID, X_SUBTAG,
        <<"1", ",", "0", "0", "0">>, <<"2">>, <<>>) :
      d \in { Day(2024, 3, 10), Day(2024, 4, 10) } }
  \cup
  { Row(NameAt(i), X_A, X_US, Day(2024, 3, 1), X_PAID, <<>>, <<"5">>, <<"2">>, <<>>),
    Row(NameAt(i), X_B, X_GB, Day(2024, 4, 10), X_PAID, X_SUBTAG, <<"7">>, <<"2">>, <<>>) }

NextCohort == ReadRow(CohortRows(Len(rows) + 1), MaxRows) \/ Steps

SpecCohort == Init /\ [][NextCohort]_vars

\* Permutation inputs: three order names (one with the subscription
\* prefix), each in three variants of one customer's order; two of the
\* variants share a timestamp, and the markets differ.
PermRows(i) ==
  { Row(nm, X_A, v[1], v[2], X_PAID, v[3], v[4], <<"2">>, v[5]) :
      nm \in { <<"#", "1">>, <<"#", "2">>, <<"#", "U", "3">> },
      v \in { <<X_US, Day(2024, 3, 10), X_SUBTAG, <<"1", "0">>, X_SLEEP>>,
              <<X_FR, Day(2024, 3, 10), <<>>, <<"1", ",", "0", "0", "0">>, <<>> >>,
              <<X_GB, Day(2024, 4, 10), X_SUBTAG, <<"2", "0">>, X_DETOX>> } }

NextPerm == ReadRow(PermRows(Len(rows) + 1), MaxRows) \/ Steps

SpecPerm == Init /\ [][NextPerm]_vars

\* Long inputs: the monthly renewals of one subscriber from 2024-01 on, the
\* i-th row being the i-th renewal; at most one row deviates from that (a
\* one-time order, a renewal shipped to an unsupported market, or another
\* customer's subscription order).
Renewal(i) ==
  Row(SubNameAt(i), X_A, X_US, Day(2024 + ((i - 1) \div 12), 1 + ((i - 1) % 12), 15),
      X_PAID, <<>>, <<"1", "0">>, <<"2">>, X_SLEEP)

DeepFamily(i) ==
  {Renewal(i)} \cup
  IF \A k \in 1..Len(rows) : rows[k] = Renewal(k)
  THEN { [Renewal(i) EXCEPT !.Name = NameAt(i)],
         [Renewal(i) EXCEPT !.Country = X_FR],
         [Renewal(i) EXCEPT !.Email = X_B, !.Country = X_GB, !.Lineitem = X_DETOX] }
  ELSE {}

NextDeep == ReadRow(DeepFamily(Len(rows) + 1), DeepRows) \/ Steps

SpecDeep == Init /\ [][NextDeep]_vars

\* Bucket inputs: distinct orders of up to two customers or of no customer: a
\* subscription order of a supported market and a one-time order of an
\* unsupported one in one month, a one-time order of the first market and
\* a subscription order of another supported market in a later month (on
\* which one customer's email is written in another case, with blanks).
BucketRows(i) ==
  { Row(NameAt(i), e, X_US, Day(2024, 3, 5), X_PAID, X_SUBTAG, <<"1", "0">>, <<"2">>, <<>>) :
      e \in {<<>>, X_A, X_B} }
  \cup
  { Row(NameAt(i), e, X_FR, Day(2024, 3, 9), X_PAID, <<>>, <<"1", "0">>, <<"2">>, <<>>) :
      e \in {<<>>, X_A} }
  \cup
  { Row(NameAt(i), e, X_US, Day(2025, 11, 20), X_PAID, <<>>, <<"1", "0">>, <<"2">>, <<>>) :
      e \in {X_A, X_B} }
  \cup
  { Row(NameAt(i), e, X_GB, Day(2025, 11, 21), X_PAID, X_SUBTAG, <<"1", "0">>, <<"2">>, <<>>) :
      e \in {<<>>, X_A_UPPER} }

NextBucket == ReadRow(BucketRows(Len(rows) + 1), MaxRows) \/ Steps

SpecBucket == Init /\ [][NextBucket]_vars

(***************************************************************************)
(* Properties                                                              *)
(***************************************************************************)

RECURSIVE SumSeq(_)
SumSeq(s) == IF s = <<>> THEN 0 ELSE s[1] + SumSeq(Tail(s))

\* The run got past Step 4 without error.
Aggregated == pc \in {"funnel", "cohort_assign", "sku", "done"}

\* The sum over the months of the window of the order count of market c
TotalOrders(c) == SumSeq([i \in 1..Len(ALL_MONTHS) |-> monthly[c][ALL_MONTHS[i]].o])

\* The identifier of a row, and the first row read that carries identifier id
RowId(row) == Strip(row.Name)
FirstRowWith(id) ==
  rows[CHOOSE k \in 1..Len(rows) :
         RowId(rows[k]) = id /\ \A j \in 1..(k - 1) : RowId(rows[j]) # id]

\* The identifiers read so far that are not empty and do not contain '_E'
KeptIds ==
  {id \in {RowId(rows[k]) : k \in 1..Len(rows)} :
     id # <<>> /\ ~Contains(id, <<"_", "E">>)}

\* C1: at every point of the run the order store holds exactly one record
\* per identifier read so far that is not empty and does not contain '_E',
\* that record is the one built from the first row carrying the identifier,
\* no identifier containing '_E' is in the order store or the valid
\* sequence, every valid order is a stored one, and the monthly table
\* counts exactly the kept identifiers whose first row is valid.
C1_Dedup ==
  /\ {orders[j].name : j \in 1..Len(orders)} = KeptIds
  /\ Len(orders) = Cardinality(KeptIds)
  /\ \A j \in 1..Len(orders) :
       orders[j] = MkOrder(orders[j].name, FirstRowWith(orders[j].name))
  /\ \A j \in 1..Len(valid) :
       /\ ~Contains(valid[j].name, <<"_", "E">>)
       /\ valid[j].name \in KeptIds
       /\ \A k \in 1..Len(valid) : valid[k].name = valid[j].name => k = j
  /\ Aggregated =>
       TotalOrders("ALL") =
         Cardinality({id \in KeptIds : IsValid(MkOrder(id, FirstRowWith(id)))})

\* C1 witness: a finished run whose input has two different rows with one
\* kept identifier, and a row with an excluded identifier.
C1_Witness ==
  /\ pc = "done"
  /\ \E i, j \in 1..Len(rows) :
       i < j /\ RowId(rows[i]) = RowId(rows[j]) /\ rows[i] # rows[j]
       /\ RowId(rows[i]) \in KeptIds
       /\ IsValid(MkOrder(RowId(rows[i]), rows[i]))
  /\ \E k \in 1..Len(rows) : Contains(RowId(rows[k]), <<"_", "E">>)


\* The supported markets
Markets == CtrySet \ {"ALL"}

\* C2: after the monthly aggregation pass, the order counts of a market
\* summed over the months of the window give the number of valid orders of
\* that market, and those of ALL the number of all valid orders.
C2_Conservation ==
  Aggregated =>
    /\ \A m \in Markets :
         TotalOrders(m) = Cardinality({j \in 1..Len(valid) : valid[j].ctry = m})
    /\ TotalOrders("ALL") = Len(valid)

\* C2 witness: an aggregated run with a valid order of a supported market,
\* one of an unsupported market, and a stored order that is not valid.
C2_Witness ==
  /\ Aggregated
  /\ \E j \in 1..Len(valid) : valid[j].ctry = "OTHER"
  /\ \E j \in 1..Len(valid) : valid[j].ctry = "GB"
  /\ Len(orders) > Len(valid)

\* The stored orders with a usable status and a date whose first seven
\* characters are a month of the window
WellDated == {j \in 1..Len(orders) :
                ~FinExcluded(orders[j].fin) /\ Prefix(orders[j].created, 7) \in MonthSet}

\* C8: a date that is missing or not well formed never ends the run: the
\* run does not abort, and the monthly table counts exactly the orders
\* with a usable status and a well-formed date of the window.
C8_MalformedDateDegrades ==
  /\ pc # "crashed"
  /\ Aggregated => TotalOrders("ALL") = Cardinality(WellDated)

\* Step 3 has run.
Annotated == pc \in {"monthly", "crashed", "funnel", "cohort_assign", "sku", "done"}

\* The positions up to j of the orders of identity em in the valid sequence
Earlier(em, j) == {i \in 1..(j - 1) : valid[i].email = em}
SubsUpTo(em, j) == {i \in 1..j : valid[i].email = em /\ valid[i].is_sub}

\* C3: after the history pass the valid sequence is sorted by creation
\* timestamp, and every order with an identity is new iff no earlier order
\* of the sequence has that identity, and carries sequence number k when
\* it is the k-th subscription order of its identity, 0 when it is not a
\* subscription order.
C3_History ==
  Annotated =>
    /\ \A i, j \in 1..Len(valid) : i < j => ~StrLess(valid[j].created, valid[i].created)
    /\ \A j \in 1..Len(valid) :
         valid[j].email # <<>> =>
           /\ valid[j].is_new = (Earlier(valid[j].email, j) = {})
           /\ valid[j].sub_seq =
                IF valid[j].is_sub THEN Cardinality(SubsUpTo(valid[j].email, j)) ELSE 0

\* C3 witness: an annotated sequence that is not in ingestion order, with
\* the third subscription order of an identity and a returning order.
C3_Witness ==
  /\ Annotated
  /\ \E j \in 1..Len(valid) :
       valid[j].email # <<>> /\ valid[j].sub_seq = 3 /\ ~valid[j].is_new
  /\ \E i, j \in 1..Len(valid) :
       i < j /\ \E a, b \in 1..Len(orders) :
                  a > b /\ orders[a].name = valid[i].name /\ orders[b].name = valid[j].name


\* Step 7 has run.
Cohorted == pc \in {"sku", "done"}

\* The identities of the valid sequence, and the position of the first
\* subscription order of an identity that has one
Identities == {valid[j].email : j \in 1..Len(valid)} \ {<<>>}
Subscribers ==
  {em \in Identities : \E j \in 1..Len(valid) : valid[j].email = em /\ valid[j].is_sub}
FirstSub(em) ==
  CHOOSE j \in 1..Len(valid) :
    /\ valid[j].email = em /\ valid[j].is_sub
    /\ \A i \in 1..(j - 1) : ~(valid[i].email = em /\ valid[i].is_sub)

\* The months 2023-01..2025-12, and the position of a month in the window
CohortMonthSet == {COHORT_MONTHS[i] : i \in 1..Len(COHORT_MONTHS)}
MonthIndex(m) == CHOOSE i \in 1..Len(ALL_MONTHS) : ALL_MONTHS[i] = m

\* The identities with a cohort: the first subscription order is in 2023-01..2025-12
CohortIds == {em \in Subscribers : valid[FirstSub(em)].month \in CohortMonthSet}

\* The orders that belong in slot k of cohort start for destination c
CohortContrib(c, start, k) ==
  {j \in 1..Len(valid) :
     /\ valid[j].email \in CohortIds
     /\ valid[j].is_sub
     /\ LET f == valid[FirstSub(valid[j].email)]
        IN  /\ f.month = start
            /\ c = "ALL" \/ c = f.ctry
            /\ MonthIndex(valid[j].month) - MonthIndex(start) = k}

RECURSIVE GrossOf(_)
GrossOf(S) ==
  IF S = {} THEN 0
  ELSE LET j == CHOOSE x \in S : TRUE
       IN  valid[j].subtotal + valid[j].discount + GrossOf(S \ {j})

\* After Step 7: the identities with a cohort are those whose first
\* subscription order lies in 2023-01..2025-12, keyed by that order's month
\* and market, and slot k of a cohort holds the subscription orders of its
\* identities k months after its start (k in 0..12) and their gross revenue.
C4_Tables ==
  Cohorted =>
    /\ DOMAIN email_cohort = CohortIds
    /\ \A em \in CohortIds :
         email_cohort[em] = [cohort |-> valid[FirstSub(em)].month,
                             ctry   |-> valid[FirstSub(em)].ctry]
    /\ \A c \in CtrySet :
         /\ DOMAIN cohort_ord[c] = DOMAIN cohort_rev[c]
         /\ \A start \in {valid[j].month : j \in 1..Len(valid)} \cup DOMAIN cohort_ord[c] :
              \A k \in 0..(COHORT_SLOTS - 1) :
                /\ SlotsOf(cohort_ord[c], start)[k + 1] = Cardinality(CohortContrib(c, start, k))
                /\ SlotsOf(cohort_rev[c], start)[k + 1] = GrossOf(CohortContrib(c, start, k))

\* In the assignment loop: a cohort is only given at a subscription order
\* with sequence number 1, and a cohort once given is never changed.
C4_Stable ==
  /\ \A em \in DOMAIN email_cohort :
       em \in DOMAIN email_cohort' /\ email_cohort'[em] = email_cohort[em]
  /\ email_cohort' # email_cohort =>
       /\ pc = "cohort_assign" /\ ci <= Len(valid)
       /\ valid[ci].is_sub /\ valid[ci].sub_seq = 1
       /\ email_cohort' = Put(email_cohort, valid[ci].email,
                              [cohort |-> valid[ci].month, ctry |-> valid[ci].ctry])

\* C4: an identity is assigned a cohort at most once, at its subscription
\* order with sequence number 1 and only if that order's month is in
\* 2023-01..2025-12; the cohort key never changes afterwards; every
\* subscription order of the identity 0..12 months after the start adds its
\* gross revenue and one order to that slot, for ALL and for the cohort's
\* market unless OTHER; other orders contribute nothing.
C4_MarketCohort == [][C4_Stable]_vars /\ []C4_Tables

M_2024_03 == <<"2", "0", "2", "4", "-", "0", "3">>

\* C4 witness: subscription orders of an identity in 2024-03, 2024-04 and
\* 2024-05 carry 1, 2, 3; the cohort starts in 2024-03 and the May order is
\* in offset 2.
C4_Witness ==
  /\ pc = "done"
  /\ Len(valid) = 3
  /\ valid[1].month = M_2024_03 /\ valid[1].sub_seq = 1
  /\ valid[2].sub_seq = 2 /\ valid[3].sub_seq = 3
  /\ MonthIndex(valid[3].month) = MonthIndex(M_2024_03) + 2
  /\ valid[3].email \in DOMAIN email_cohort
  /\ email_cohort[valid[3].email].cohort = M_2024_03
  /\ SlotsOf(cohort_ord["ALL"], M_2024_03)[3] = 1
  /\ SlotsOf(cohort_ord["US"], M_2024_03)[1] = 1


\* Every list of a cohort table has exactly the 13 slots of offsets 0..12.
ThirteenSlots(t) == \A key \in DOMAIN t : DOMAIN t[key] = 1..COHORT_SLOTS

\* C5: every list of the market-cohort and product-cohort tables has
\* exactly 13 slots, offsets 0..12, and nothing is written at another
\* offset: each list's order counts add up to the orders within that range.
C5_CohortBound ==
  /\ Cohorted =>
       \A c \in CtrySet :
         /\ ThirteenSlots(cohort_rev[c]) /\ ThirteenSlots(cohort_ord[c])
         /\ \A start \in DOMAIN cohort_ord[c] :
              SumSeq(cohort_ord[c][start]) =
                Cardinality(UNION {CohortContrib(c, start, k) : k \in 0..12})
  /\ pc = "done" =>
       /\ ThirteenSlots(sku_cohort_rev) /\ ThirteenSlots(sku_cohort_ord)
       /\ \A grp \in DOMAIN sku_cohort_ord :
            SumSeq(sku_cohort_ord[grp]) <=
              Cardinality({j \in 1..Len(valid) : valid[j].sub_seq \in 1..13})

\* C5 witness: a finished run with a subscription order 13 months after
\* its identity's cohort start, and one with sequence number 14.
C5_Witness ==
  /\ pc = "done"
  /\ \E j \in 1..Len(valid) :
       /\ valid[j].email \in DOMAIN email_cohort
       /\ valid[j].is_sub
       /\ months_offset(email_cohort[valid[j].email].cohort, valid[j].month) = 13
  /\ \E j \in 1..Len(valid) : valid[j].email # <<>> /\ valid[j].sub_seq = 14

\* Step 5 has run.
Funnelled == pc \in {"cohort_assign", "sku", "done"}

\* The number of subscription orders of an identity
SubCount(em) == Cardinality({j \in 1..Len(valid) : valid[j].email = em /\ valid[j].is_sub})

\* C6: the funnel of every market never increases with depth, and the ALL
\* funnel counts at depth d (1..8) the identities with at least d
\* subscription orders.
C6_FunnelMonotone ==
  Funnelled =>
    /\ \A c \in CtrySet : \A d \in 1..(FUNNEL_DEPTH - 1) : sub_ret[c][d] >= sub_ret[c][d + 1]
    /\ \A d \in 1..FUNNEL_DEPTH :
         sub_ret["ALL"][d] = Cardinality({em \in Subscribers : SubCount(em) >= d})

\* C6 witness: a funnel with an identity deeper than 8 and a strict drop.
C6_Witness ==
  /\ Funnelled
  /\ \E em \in Subscribers : SubCount(em) > FUNNEL_DEPTH
  /\ sub_ret["ALL"][1] > sub_ret["ALL"][2]
  /\ sub_ret["ALL"][FUNNEL_DEPTH] = 1

\* The product group of an identity: that of its first subscription order
GroupOfIdentity(em) == GroupOf(order_product, valid[FirstSub(em)].name)

\* The subscription orders of the identities of product group grp
GroupOrders(grp) ==
  {j \in 1..Len(valid) :
     valid[j].email \in Subscribers /\ valid[j].is_sub
     /\ GroupOfIdentity(valid[j].email) = grp}

Groups == {GroupOfIdentity(em) : em \in Subscribers}

\* C9 as claimed: every subscription order of an identity with a product
\* group is counted in slot min(seq - 1, 12) of the group, so that the
\* slots of a group add up to the subscription orders of its identities.
C9_Clipped ==
  pc = "done" =>
    \A grp \in Groups :
      /\ \A k \in 0..(COHORT_SLOTS - 1) :
           SlotsOf(sku_cohort_ord, grp)[k + 1] =
             Cardinality({j \in GroupOrders(grp) : Min(valid[j].sub_seq - 1, 12) = k})
      /\ SumSeq(SlotsOf(sku_cohort_ord, grp)) = Cardinality(GroupOrders(grp))

\* C9 as amended: a subscription order with sequence number 1..13 is
\* counted, with its gross revenue, in slot seq - 1 of its identity's
\* group; one with a sequence number above 13 is counted nowhere.
C9_Discarded ==
  pc = "done" =>
    /\ DOMAIN sku_cohort_ord = Groups /\ DOMAIN sku_cohort_rev = Groups
    /\ \A grp \in Groups :
         /\ \A k \in 0..(COHORT_SLOTS - 1) :
              /\ sku_cohort_ord[grp][k + 1] =
                   Cardinality({j \in GroupOrders(grp) : valid[j].sub_seq - 1 = k})
              /\ sku_cohort_rev[grp][k + 1] =
                   GrossOf({j \in GroupOrders(grp) : valid[j].sub_seq - 1 = k})
         /\ SumSeq(sku_cohort_ord[grp]) =
              Cardinality({j \in GroupOrders(grp) : valid[j].sub_seq <= COHORT_SLOTS})

\* C9 witness: a finished run with a 14th subscription order, whose group
\* counts 13 orders.
C9_Witness ==
  /\ pc = "done"
  /\ \E j \in 1..Len(valid) :
       /\ valid[j].email # <<>> /\ valid[j].sub_seq = 14
       /\ SumSeq(sku_cohort_ord[GroupOfIdentity(valid[j].email)]) = 13
       /\ sku_cohort_ord[GroupOfIdentity(valid[j].email)][13] = 1


\* The tables of the finished run
Tables ==
  [err |-> FALSE, monthly |-> monthly, sub_ret |-> sub_ret,
   cohort_rev |-> cohort_rev, cohort_ord |-> cohort_ord,
   sku_cohort_rev |-> sku_cohort_rev, sku_cohort_ord |-> sku_cohort_ord]

Perms(n) == {p \in [1..n -> 1..n] : \A i, j \in 1..n : p[i] = p[j] => i = j}
Permute(s, p) == [i \in 1..Len(s) |-> s[p[i]]]

\* C7 as claimed: the run on any permutation of the input rows gives the
\* same annotated valid sequence and the same tables.
C7_AnyPermutation ==
  pc = "done" =>
    \A p \in Perms(Len(rows)) :
      Pipeline(Permute(rows, p)) = [valid |-> valid, tables |-> Tables]

\* Rows that share an identifier are equal, and no two valid orders share
\* a creation timestamp.
Unambiguous ==
  /\ \A i, j \in 1..Len(rows) : RowId(rows[i]) = RowId(rows[j]) => rows[i] = rows[j]
  /\ \A i, j \in 1..Len(valid) : valid[i].created = valid[j].created => i = j

\* C7 as amended: when rows sharing an identifier are equal and no two
\* valid orders share a creation timestamp, the run on any permutation of
\* the input rows gives the same annotated valid sequence and tables.
C7_UnambiguousPermutation ==
  (pc = "done" /\ Unambiguous) =>
    \A p \in Perms(Len(rows)) :
      Pipeline(Permute(rows, p)) = [valid |-> valid, tables |-> Tables]

\* C7 witness: a finished run on an unambiguous input with a repeated row,
\* whose orders were read in another order than they were created.
C7_Witness ==
  /\ pc = "done"
  /\ Unambiguous
  /\ Len(valid) >= 2
  /\ Len(rows) > Len(orders)
  /\ orders[1].name = valid[2].name

\* The tables of the passes after history tracking, on the annotated
\* sequence scanned in the order p
Scanned(p) == Aggregate(order_product, Permute(valid, p))

\* C10 as claimed: the passes after history tracking give the same tables
\* for every order in which they scan the annotated orders.
C10_AnyScanOrder ==
  pc = "done" => \A p \in Perms(Len(valid)) : Scanned(p) = Tables

\* Every identity's subscription orders are in one market.
OneMarket ==
  \A i, j \in 1..Len(valid) :
    (valid[i].email # <<>> /\ valid[i].email = valid[j].email
       /\ valid[i].is_sub /\ valid[j].is_sub) => valid[i].ctry = valid[j].ctry

\* C10 as amended: the monthly, market-cohort and product-cohort tables and
\* the ALL funnel are the same for every scan order; the funnel of the
\* markets is the same when every identity's subscription orders are in
\* one market.
C10_ScanOrder ==
  pc = "done" =>
    \A p \in Perms(Len(valid)) :
      /\ [Scanned(p) EXCEPT !.sub_ret = Tables.sub_ret] = Tables
      /\ Scanned(p).sub_ret["ALL"] = sub_ret["ALL"]
      /\ OneMarket => Scanned(p).sub_ret = sub_ret

\* C10 witness: a finished run with two subscription orders of one
\* identity, in one market or not, a cohort and a product group.
C10_Witness ==
  /\ pc = "done"
  /\ \E i, j \in 1..Len(valid) :
       i < j /\ valid[i].email = valid[j].email /\ valid[i].is_sub /\ valid[j].is_sub
       /\ valid[i].ctry # valid[j].ctry
  /\ email_cohort # <<>>
  /\ sku_cohort_ord # <<>>
  /\ sub_ret["ALL"][2] = 1

\* The sum over the months of the window of the new-customer count of ALL
TotalNew == SumSeq([i \in 1..Len(ALL_MONTHS) |-> monthly["ALL"][ALL_MONTHS[i]].nc])

\* C11: after the monthly aggregation pass there is a bucket for each of
\* the six market keys and each of the 72 months 2020-03..2026-02, used or
\* not; in every bucket the new and the returning count add up to the
\* order count, and so do the subscription and the one-time count; and
\* the new counts of ALL, summed over the months, give the number of
\* distinct non-empty identities among the valid orders.
C11_BucketPartition ==
  Aggregated =>
    /\ DOMAIN monthly = {"ALL", "US", "GB", "DE", "NL", "CA"}
    /\ Len(ALL_MONTHS) = 72
    /\ ALL_MONTHS[1] = START_MONTH /\ ALL_MONTHS[72] = END_MONTH
    /\ \A c \in DOMAIN monthly :
         /\ DOMAIN monthly[c] = MonthSet
         /\ \A m \in MonthSet :
              /\ monthly[c][m].nc + monthly[c][m].rc = monthly[c][m].o
              /\ monthly[c][m].sub + monthly[c][m].ot = monthly[c][m].o
    /\ TotalNew = Cardinality(Identities)

\* C11 witness: an aggregated run with three valid orders, one without
\* identity and two of one identity, with a subscription and a one-time
\* order and an order of an unsupported market; one bucket holds a new
\* and a returning order, and the buckets of a market without orders are
\* there and empty.
C11_Witness ==
  /\ Aggregated
  /\ Len(valid) = 3
  /\ \E j \in 1..3 : valid[j].email = <<>>
  /\ Cardinality(Identities) = 1
  /\ \E j \in 1..3 : valid[j].is_sub
  /\ \E j \in 1..3 : ~valid[j].is_sub
  /\ \E j \in 1..3 : valid[j].ctry = "OTHER"
  /\ \E m \in MonthSet : monthly["ALL"][m].nc = 1 /\ monthly["ALL"][m].rc >= 1
  /\ \A m \in MonthSet : monthly["DE"][m] = empty_mo(m)

====
